---- MODULE Spec2Model ----
(***************************************************************************)
(* Model of scx-power-sync-dbus (src/src/main.rs): a daemon that reads the *)
(* power-profiles-daemon ActiveProfile at startup, applies the matching    *)
(* scx scheduler mode through scxctl, and then reacts to every             *)
(* PropertiesChanged notification, one at a time.                          *)
(*                                                                         *)
(* Text produced by external tools (stdout, stderr) is modelled as a       *)
(* sequence of one-character strings so that to_lowercase, contains and    *)
(* trim are computed, not assumed.  Command-line tokens and bus strings    *)
(* are TLA+ strings.                                                       *)
(***************************************************************************)
EXTENDS Integers, Sequences, FiniteSets, TLC

\* ------------------------------------------------------------------ bounds
\* Total number of notifications the bus delivers in one run.
MaxEvents == 2

\* ---------------------------------------------------------------- constants
IFACE == "net.hadess.PowerProfiles"
OtherIface == "org.freedesktop.DBus.Properties"

\* enum Profile
Profile == {"Performance", "Balanced", "PowerSaver"}

\* Option<Profile>
None == [some |-> FALSE, p |-> "-"]
Some(p) == [some |-> TRUE, p |-> p]

\* Profile::from_str : Result<Profile>
FromStr(s) ==
  IF s = "performance" THEN [ok |-> TRUE, p |-> "Performance"]
  ELSE IF s = "balanced" THEN [ok |-> TRUE, p |-> "Balanced"]
  ELSE IF s = "power-saver" THEN [ok |-> TRUE, p |-> "PowerSaver"]
  ELSE [ok |-> FALSE, p |-> "-"]

\* Profile::as_config_key
as_config_key(p) ==
  IF p = "Performance" THEN "performance"
  ELSE IF p = "Balanced" THEN "balanced"
  ELSE "power-saver"

\* struct Mode
NoMode == [sched |-> "-", args |-> "-"]
ModeDefs ==
  [k \in {"performance", "balanced", "power-saver", "turbo"} |->
     IF k = "performance" THEN [sched |-> "scx_bpfland", args |-> "-m performance"]
     ELSE IF k = "balanced" THEN [sched |-> "scx_lavd", args |-> "--autopilot"]
     ELSE IF k = "power-saver" THEN [sched |-> "scx_lavd", args |-> "--powersave -s 5000"]
     ELSE [sched |-> "scx_rusty", args |-> ""]]

\* A file that gives performance and balanced the same definition.
SameDefs == [ModeDefs EXCEPT !["balanced"] = ModeDefs["performance"]]

\* RawConfig.modes as deserialized from the configuration file: a map from
\* key strings to mode definitions.  The files considered: every set of keys
\* among the three profile tokens and one unknown key (a HashMap holds each
\* key once), with distinct definitions or with one shared by two profiles.
RawConfigs ==
  { [k \in ks |-> defs[k]] :
      ks \in SUBSET {"performance", "balanced", "power-saver", "turbo"},
      defs \in {ModeDefs, SameDefs} }

NoConfig == [ok |-> FALSE, modes |-> << >>]

\* Variant: keys that are not profiles are ignored and completeness is not
\* checked.
load_config_lax(raw) ==
  [ok |-> TRUE,
   modes |-> [p \in {FromStr(k).p : k \in {j \in DOMAIN raw : FromStr(j).ok}}
                |-> raw[as_config_key(p)]]]

\* load_config, after the file has been read and deserialized.
load_config(raw) ==
  IF \E k \in DOMAIN raw : ~FromStr(k).ok THEN NoConfig
  ELSE IF \E k1, k2 \in DOMAIN raw : k1 # k2 /\ FromStr(k1).p = FromStr(k2).p
    THEN NoConfig
  ELSE LET modes == [p \in {FromStr(k).p : k \in DOMAIN raw} |-> raw[as_config_key(p)]]
       IN IF \E p \in Profile : p \notin DOMAIN modes THEN NoConfig
          ELSE [ok |-> TRUE, modes |-> modes]

\* Variant: a profile without an entry gets a placeholder mode.
mode_for_any(cfg, p) ==
  [some |-> TRUE,
   mode |-> IF p \in DOMAIN cfg.modes THEN cfg.modes[p] ELSE NoMode]

\* Config::mode_for : Option<&Mode>
mode_for(cfg, p) ==
  IF p \in DOMAIN cfg.modes THEN [some |-> TRUE, mode |-> cfg.modes[p]]
  ELSE [some |-> FALSE, mode |-> NoMode]

\* ------------------------------------------------------------- tool output
Upper == <<"A","B","C","D","E","F","G","H","I","J","K","L","M",
           "N","O","P","Q","R","S","T","U","V","W","X","Y","Z">>
Lower == <<"a","b","c","d","e","f","g","h","i","j","k","l","m",
           "n","o","p","q","r","s","t","u","v","w","x","y","z">>

ToLowerChar(c) ==
  IF \E i \in 1..26 : Upper[i] = c
    THEN Lower[CHOOSE i \in 1..26 : Upper[i] = c]
    ELSE c

\* str::to_lowercase
to_lowercase(t) == [i \in 1..Len(t) |-> ToLowerChar(t[i])]

\* str::contains
contains(t, pat) ==
  \E i \in 0..(Len(t) - Len(pat)) : \A j \in 1..Len(pat) : t[i + j] = pat[j]

IsSpace(c) == c \in {" ", "\n", "\t"}

\* str::trim
trim(t) ==
  IF \A i \in 1..Len(t) : IsSpace(t[i]) THEN << >>
  ELSE LET a == CHOOSE i \in 1..Len(t) :
                  ~IsSpace(t[i]) /\ \A j \in 1..(i - 1) : IsSpace(t[j])
           b == CHOOSE i \in 1..Len(t) :
                  ~IsSpace(t[i]) /\ \A j \in (i + 1)..Len(t) : IsSpace(t[j])
       IN SubSeq(t, a, b)

\* "no scx scheduler running"
Marker == <<"n","o"," ","s","c","x"," ","s","c","h","e","d","u","l","e","r",
            " ","r","u","n","n","i","n","g">>

\* ExitStatus: code() is Some(code) or None (killed by a signal).
Statuses == { [hasCode |-> TRUE, code |-> 0],
              [hasCode |-> TRUE, code |-> 1],
              [hasCode |-> TRUE, code |-> 2],
              [hasCode |-> FALSE, code |-> 0] }

\* ExitStatus::success
success(st) == st.hasCode /\ st.code = 0

\* status.code().unwrap_or(-1)
ExitCode(st) == IF st.hasCode THEN st.code ELSE -1

GetStdouts ==
  { Marker,
    <<"N","o"," ","S","C","X"," ","s","c","h","e","d","u","l","e","r",
      " ","R","u","n","n","i","n","g","\n">>,
    <<"r","u","n","n","i","n","g"," ","L","a","v","d","\n">>,
    << >> }

ApplyStdouts == { << >>, <<" ","o","k","\n">> }
Stderrs == { << >>, <<" ","e","r","r","\n">> }

\* Result<Output> of Command::output(): exec = FALSE is the spawn failure.
ExecFail == [exec |-> FALSE, status |-> [hasCode |-> FALSE, code |-> 0],
             stdout |-> << >>, stderr |-> << >>]
NoOutput == ExecFail

\* `scxctl get` exits 0 or 1 in the runs considered.
GetStatuses == {st \in Statuses : st.hasCode /\ st.code \in {0, 1}}

GetResults ==
  {ExecFail} \cup
  [exec : {TRUE}, status : GetStatuses, stdout : GetStdouts, stderr : {<<"e","\n">>}]

ApplyResults ==
  {ExecFail} \cup
  [exec : {TRUE}, status : Statuses, stdout : ApplyStdouts, stderr : Stderrs]

\* Variant: a nonzero exit of `scxctl get` counts as "not running".
scx_running_strict(out) ==
  success(out.status) /\ ~contains(to_lowercase(out.stdout), Marker)

\* scx_running, given the Output of `scxctl get`
scx_running(out) == ~contains(to_lowercase(out.stdout), Marker)

\* let subcmd = if running { "switch" } else { "start" };
Subcmd(running) == IF running THEN "switch" ELSE "start"

\* Variant: the payload handed over as a token of its own.
ApplyArgv_split(subcmd, m) == <<subcmd, "--sched", m.sched, "--args", m.args>>

\* the argv handed to scxctl by apply_mode
ApplyArgv(subcmd, m) == <<subcmd, "--sched", m.sched, "--args=" \o m.args>>

\* Result<()> of apply_mode
ResOk == [ok |-> TRUE, kind |-> "ok", subcmd |-> "-", code |-> 0, stderr |-> << >>]
NoResult == [ok |-> FALSE, kind |-> "none", subcmd |-> "-", code |-> 0, stderr |-> << >>]
ErrExec(ctxt) == [ok |-> FALSE, kind |-> ctxt, subcmd |-> "-", code |-> 0, stderr |-> << >>]

\* apply_mode's classification of the start/switch Output
ApplyOutcome(subcmd, out) ==
  IF ~out.exec THEN ErrExec("exec")
  ELSE IF ~success(out.status)
    THEN [ok |-> FALSE, kind |-> "tool", subcmd |-> subcmd,
          code |-> ExitCode(out.status), stderr |-> trim(out.stderr)]
  ELSE ResOk

\* ------------------------------------------------------------ notifications
\* A PropertiesChanged signal as the loop sees it: whether signal.args()
\* decodes, its interface name, whether changed_properties has the key
\* "ActiveProfile", and the value (a string, or another variant).
NotifShapes ==
  { [decode |-> FALSE, iface |-> IFACE, has |-> FALSE, isStr |-> FALSE, s |-> ""],
    [decode |-> TRUE, iface |-> OtherIface, has |-> TRUE, isStr |-> TRUE, s |-> "performance"],
    [decode |-> TRUE, iface |-> IFACE, has |-> FALSE, isStr |-> FALSE, s |-> ""],
    [decode |-> TRUE, iface |-> IFACE, has |-> TRUE, isStr |-> FALSE, s |-> ""] }
  \cup
  { [decode |-> TRUE, iface |-> IFACE, has |-> TRUE, isStr |-> TRUE, s |-> v] :
      v \in {"performance", "balanced", "power-saver", "Balanced"} }

NoNotif == [decode |-> FALSE, iface |-> "-", has |-> FALSE, isStr |-> FALSE, s |-> "-"]

\* What the startup get_property("ActiveProfile") may return.
StartupStrings == {"performance", "balanced", "power-saver", "quiet"}

Entry(level, msg) == [level |-> level, msg |-> msg]

\* ------------------------------------------------------------------- state
VARIABLES
  pc,          \* where main is: "start", "ensure_bin", "connect", "read",
               \* "probe" (scxctl get running), "invoke" (start/switch running),
               \* "subscribe", "loop" (awaiting stream.next()), "done", "failed"
  config,      \* the loaded Config
  last,        \* `last`: Option<Profile>
  subscribed,  \* the PropertiesChanged match rule is installed
  stream,      \* notifications delivered by the bus and not yet taken
  closed,      \* the subscription stream has ended
  emitted,     \* number of notifications delivered so far
  taken,       \* number of notifications taken by stream.next()
  cur,         \* the notification being handled
  ctx,         \* call site of the apply_mode in progress: "startup" or "event"
  curP,        \* `p` of the handler in progress
  mode,        \* `mode` handed to apply_mode
  calls,       \* argv of every scxctl invocation made by the current handler
  inflight,    \* scxctl children spawned and not yet waited for
  log,         \* log entries written by the current handler
  probe,       \* Output of the handler's `scxctl get`
  applyOut,    \* Output of the handler's `scxctl start|switch`
  result,      \* value returned by the handler's apply_mode
  current_raw, \* `current_raw`: the string read at startup
  rawcfg,      \* `raw.modes`: the deserialized configuration file
  \* history of the run
  failedFor,   \* profiles whose event-driven application failed, no
               \* notification naming them taken since
  retryOf,     \* the profile of failedFor the signal in hand names, or "-"
  lastOk,      \* profile and argv of the latest start/switch that exited 0
  \* the daemon's surroundings
  active,      \* ActiveProfile as the power-profile service holds it
  running,     \* whether an scx scheduler is running
  sampled,     \* run state the in-flight `scxctl get` has observed
  lostChange,  \* ActiveProfile changed between the startup read and the
               \* subscription
  anyFail      \* some apply_mode call has returned an error

\* The surroundings; the actions of main leave them alone.
envVars == <<active, running, sampled, lostChange, anyFail>>

vars == <<pc, config, last, subscribed, stream, closed, emitted, taken, cur,
          ctx, curP, mode, calls, inflight, log, probe, applyOut, result,
          current_raw, rawcfg, failedFor, retryOf, lastOk, envVars>>

\* Variant: the child is spawned and not waited for.
Reap_nowait(fl) == fl

\* Command::new("scxctl").args(args).output(): spawn the child ...
Spawn(fl, argv) == Append(fl, argv)
\* ... and block until it has exited.
Reap(fl) == Tail(fl)

\* Variant: no deduplication.
IsDuplicate_never(l, p) == FALSE

\* if last == Some(p) { continue; }
IsDuplicate(l, p) == l = Some(p)

\* Variant: the interface name is not looked at.
InterfaceMatches_any(n) == TRUE

\* if args.interface_name() != IFACE { continue; }
InterfaceMatches(n) == n.iface = IFACE

\* changed.get("ActiveProfile")
HasActiveProfile(n) == n.has

Skip(logs) == [apply |-> FALSE, p |-> "-", mode |-> NoMode, logs |-> logs]

\* One iteration of the while-let body, up to the call of apply_mode.
Dispatch(n, l, cfg) ==
  IF ~n.decode THEN Skip(<<Entry("warn", "signal args decode failed")>>)
  ELSE IF ~InterfaceMatches(n) THEN Skip(<< >>)
  ELSE IF ~HasActiveProfile(n) THEN Skip(<< >>)
  ELSE IF ~n.isStr THEN Skip(<<Entry("warn", "unexpected variant for ActiveProfile")>>)
  ELSE LET r == FromStr(n.s) IN
    IF ~r.ok THEN Skip(<<Entry("warn", "unknown profile in event")>>)
    ELSE IF IsDuplicate(l, r.p) THEN Skip(<< >>)
    ELSE LET m == mode_for(cfg, r.p) IN
      IF m.some
        THEN [apply |-> TRUE, p |-> r.p, mode |-> m.mode,
              logs |-> <<Entry("info", "[event] ActiveProfile")>>]
        ELSE Skip(<<Entry("info", "[event] ActiveProfile"),
                    Entry("warn", "no mode configured for profile")>>)

\* Variant: an unparsable startup string falls back to the balanced mode.
StartupDispatch_default(s, cfg) ==
  LET r == FromStr(s)
      p == IF r.ok THEN r.p ELSE "Balanced"
  IN [apply |-> TRUE, p |-> p, mode |-> mode_for(cfg, p).mode,
      logs |-> <<Entry("info", "[startup] ActiveProfile")>>]

\* The startup match on Profile::from_str(current_raw), up to apply_mode.
StartupDispatch(s, cfg) ==
  LET r == FromStr(s) IN
    IF ~r.ok THEN Skip(<<Entry("warn", "[startup] unknown power profile")>>)
    ELSE LET m == mode_for(cfg, r.p) IN
      IF m.some
        THEN [apply |-> TRUE, p |-> r.p, mode |-> m.mode,
              logs |-> <<Entry("info", "[startup] ActiveProfile")>>]
        ELSE Skip(<<Entry("info", "[startup] ActiveProfile"),
                    Entry("warn", "no mode configured for profile")>>)

\* Variant: the loop propagates an apply_mode error with `?` too.
AfterApply_propagate(c, res) ==
  IF ~res.ok THEN "failed" ELSE IF c = "startup" THEN "subscribe" ELSE "loop"

\* Variant: the startup call logs an apply_mode error and goes on.
AfterApply_lenient(c, res) == IF c = "startup" THEN "subscribe" ELSE "loop"

\* Where main goes when apply_mode returns res at call site c:
\* startup uses `?` (an error ends main), the loop logs and goes on.
AfterApply(c, res) ==
  IF c = "startup" THEN (IF res.ok THEN "subscribe" ELSE "failed")
  ELSE "loop"

\* Variant: `last` is never advanced.
LastAfter_keep(l, p, res) == l

\* Variant: `last` is advanced whatever apply_mode returned.
LastAfter_always(l, p, res) == Some(p)

\* `last` after apply_mode returned res for profile p.
LastAfter(l, p, res) == IF res.ok THEN Some(p) ELSE l

\* Log written by the caller when apply_mode returns res at call site c.
CallerLog(c, res) ==
  IF c = "event" /\ ~res.ok THEN <<Entry("error", "apply_mode error")>> ELSE << >>

\* Index of the stream element stream.next() yields.
NextIndex(st) == 1

\* The profile a signal names for the power-profile interface, "-" if none.
Named(n) ==
  IF n.decode /\ n.iface = IFACE /\ n.has /\ n.isStr /\ FromStr(n.s).ok
    THEN FromStr(n.s).p ELSE "-"

NoLastOk == [p |-> "-", argv |-> << >>]

\* Variant: a nonzero exit of `scxctl get` is a probe failure too.
ProbeFails_strict(r) == ~r.exec \/ ~success(r.status)

\* let running = scx_running().context("probe scx running")?;
\* the probe fails when scxctl could not be executed.
ProbeFails(r) == ~r.exec

\* main's own state at process start.
InitMain ==
  /\ pc = "start"
  /\ config = NoConfig
  /\ last = None
  /\ subscribed = FALSE
  /\ stream = << >>
  /\ closed = FALSE
  /\ emitted = 0
  /\ taken = 0
  /\ cur = [id |-> 0, n |-> NoNotif]
  /\ ctx = "startup"
  /\ curP = "-"
  /\ mode = NoMode
  /\ calls = << >>
  /\ inflight = << >>
  /\ log = << >>
  /\ probe = NoOutput
  /\ applyOut = NoOutput
  /\ result = NoResult
  /\ current_raw = ""
  /\ rawcfg = << >>
  /\ failedFor = {}
  /\ retryOf = "-"
  /\ lastOk = NoLastOk

\* The bus and scxctl are opaque here: the surroundings are not tracked.
Init ==
  /\ InitMain
  /\ active = "-"
  /\ running = FALSE
  /\ sampled = "none"
  /\ lostChange = FALSE
  /\ anyFail = FALSE

\* let config = load_config().context("load configuration")?;
\* with the file's contents among RS.
LoadConfigOf(RS) ==
  /\ pc = "start"
  /\ \E raw \in RS :
       /\ rawcfg' = raw
       /\ config' = load_config(raw)
       /\ pc' = IF config'.ok THEN "ensure_bin" ELSE "failed"
  /\ UNCHANGED <<last, subscribed, stream, closed, emitted, taken, cur, ctx,
                 curP, mode, calls, inflight, log, probe, applyOut, result,
                 current_raw, failedFor, retryOf, lastOk, envVars>>

LoadConfig == LoadConfigOf(RawConfigs)

\* ensure_bin("scxctl")?; ensure_bin("powerprofilesctl")?;
EnsureBins ==
  /\ pc = "ensure_bin"
  /\ \E scxctlFound, ppctlFound \in BOOLEAN :
       pc' = IF scxctlFound /\ ppctlFound THEN "connect" ELSE "failed"
  /\ UNCHANGED <<config, last, subscribed, stream, closed, emitted, taken, cur,
                 ctx, curP, mode, calls, inflight, log, probe, applyOut, result,
                 current_raw, rawcfg, failedFor, retryOf, lastOk, envVars>>

\* Connection::system() and Proxy::new(), each with `?`
Connect ==
  /\ pc = "connect"
  /\ \E ok \in BOOLEAN : pc' = IF ok THEN "read" ELSE "failed"
  /\ UNCHANGED <<config, last, subscribed, stream, closed, emitted, taken, cur,
                 ctx, curP, mode, calls, inflight, log, probe, applyOut, result,
                 current_raw, rawcfg, failedFor, retryOf, lastOk, envVars>>

\* ppd.get_property("ActiveProfile") fails: main returns the error.
StartupReadFails ==
  /\ pc = "read"
  /\ pc' = "failed"
  /\ UNCHANGED <<config, last, subscribed, stream, closed, emitted, taken, cur,
                 ctx, curP, mode, calls, inflight, log, probe, applyOut, result,
                 current_raw, rawcfg, failedFor, retryOf, lastOk, envVars>>

\* The startup read returns a string of S; parse, look up, and enter
\* apply_mode, whose first statement spawns `scxctl get`.
StartupReadOf(S) ==
  /\ pc = "read"
  /\ \E s \in S :
       LET d == StartupDispatch(s, config) IN
         /\ current_raw' = s
         /\ log' = d.logs
         /\ ctx' = "startup"
         /\ IF d.apply
              THEN /\ pc' = "probe"
                   /\ curP' = d.p
                   /\ mode' = d.mode
                   /\ calls' = Append(calls, <<"get">>)
                   /\ inflight' = Spawn(inflight, <<"get">>)
              ELSE /\ pc' = "subscribe"
                   /\ UNCHANGED <<curP, mode, calls, inflight>>
  /\ last' = None
  /\ UNCHANGED <<config, subscribed, stream, closed, emitted, taken, cur,
                 probe, applyOut, result, rawcfg, failedFor, retryOf, lastOk>>

StartupRead == StartupReadOf(StartupStrings) /\ UNCHANGED envVars

\* `scxctl get` returns a result of R inside scx_running; apply_mode goes on
\* to spawn start/switch, or returns the probe error to its caller.
ProbeReturnOf(R) ==
  /\ pc = "probe"
  /\ inflight # << >>
  /\ \E r \in R :
       /\ probe' = r
       /\ IF ProbeFails(r)
            THEN LET res == ErrExec("probe") IN
                   /\ result' = res
                   /\ inflight' = Reap(inflight)
                   /\ calls' = calls
                   /\ log' = log \o CallerLog(ctx, res)
                   /\ last' = LastAfter(last, curP, res)
                   /\ pc' = AfterApply(ctx, res)
                   /\ failedFor' = IF ctx = "event" THEN failedFor \cup {curP}
                                   ELSE failedFor
            ELSE LET argv == ApplyArgv(Subcmd(scx_running(r)), mode) IN
                   /\ result' = result
                   /\ inflight' = Spawn(Reap(inflight), argv)
                   /\ calls' = Append(calls, argv)
                   /\ log' = log
                            \o (IF success(r.status) THEN << >>
                                ELSE <<Entry("warn", "scxctl get exit")>>)
                            \o <<Entry("info", "[apply]")>>
                   /\ last' = last
                   /\ pc' = "invoke"
                   /\ failedFor' = failedFor
  /\ UNCHANGED <<config, subscribed, stream, closed, emitted, taken, cur, ctx,
                 curP, mode, applyOut, current_raw, rawcfg, retryOf, lastOk>>

ProbeReturn == ProbeReturnOf(GetResults) /\ UNCHANGED envVars

\* `scxctl start|switch` returns a result of R; apply_mode classifies it and
\* returns to its caller, which updates `last` or handles the error.
ApplyReturnOf(R) ==
  /\ pc = "invoke"
  /\ inflight # << >>
  /\ \E r \in R :
       LET res == ApplyOutcome(Head(inflight)[1], r) IN
         /\ applyOut' = r
         /\ result' = res
         /\ inflight' = Reap(inflight)
         /\ log' = log
                  \o (IF res.ok /\ trim(r.stdout) # << >>
                        THEN <<Entry("info", "[scxctl] stdout")>> ELSE << >>)
                  \o CallerLog(ctx, res)
         /\ last' = LastAfter(last, curP, res)
         /\ pc' = AfterApply(ctx, res)
         /\ lastOk' = IF r.exec /\ r.status = [hasCode |-> TRUE, code |-> 0]
                        THEN [p |-> curP, argv |-> Head(inflight)]
                        ELSE lastOk
         /\ failedFor' = IF ctx = "event" /\ ~res.ok THEN failedFor \cup {curP}
                         ELSE failedFor
  /\ UNCHANGED <<config, subscribed, stream, closed, emitted, taken, cur, ctx,
                 curP, mode, calls, probe, current_raw, rawcfg, retryOf>>

ApplyReturn == ApplyReturnOf(ApplyResults) /\ UNCHANGED envVars

\* PropertiesProxy::new() and receive_properties_changed(), each with `?`
Subscribe ==
  /\ pc = "subscribe"
  /\ \E ok \in BOOLEAN :
       /\ pc' = IF ok THEN "loop" ELSE "failed"
       /\ subscribed' = ok
  /\ UNCHANGED <<config, last, stream, closed, emitted, taken, cur, ctx, curP,
                 mode, calls, inflight, log, probe, applyOut, result,
                 current_raw, rawcfg, failedFor, retryOf, lastOk, envVars>>

\* The bus delivers a PropertiesChanged signal of N to the subscription.
DeliverOf(N) ==
  /\ subscribed
  /\ ~closed
  /\ emitted < MaxEvents
  /\ \E n \in N :
       stream' = Append(stream, [id |-> emitted + 1, n |-> n])
  /\ emitted' = emitted + 1
  /\ UNCHANGED <<pc, config, last, subscribed, closed, taken, cur, ctx, curP,
                 mode, calls, inflight, log, probe, applyOut, result,
                 current_raw, rawcfg, failedFor, retryOf, lastOk>>

Deliver == DeliverOf(NotifShapes) /\ UNCHANGED envVars

\* The bus connection goes away: the stream yields None once drained.
CloseStream ==
  /\ subscribed
  /\ ~closed
  /\ closed' = TRUE
  /\ UNCHANGED <<pc, config, last, subscribed, stream, emitted, taken, cur,
                 ctx, curP, mode, calls, inflight, log, probe, applyOut, result,
                 current_raw, rawcfg, failedFor, retryOf, lastOk, envVars>>

\* stream.next() yields Some(signal): one iteration of the loop body, up to
\* `continue`, the end of the body, or the spawn of `scxctl get`.
NextEvent ==
  /\ pc = "loop"
  /\ stream # << >>
  /\ LET i == NextIndex(stream)
         e == stream[i]
         d == Dispatch(e.n, last, config)
     IN /\ cur' = e
        /\ stream' = SubSeq(stream, 1, i - 1) \o SubSeq(stream, i + 1, Len(stream))
        /\ taken' = taken + 1
        /\ ctx' = "event"
        /\ log' = d.logs
        /\ probe' = NoOutput
        /\ applyOut' = NoOutput
        /\ result' = NoResult
        /\ curP' = d.p
        /\ mode' = d.mode
        /\ IF d.apply
             THEN /\ pc' = "probe"
                  /\ calls' = <<<<"get">>>>
                  /\ inflight' = Spawn(inflight, <<"get">>)
             ELSE /\ pc' = "loop"
                  /\ calls' = << >>
                  /\ inflight' = inflight
        /\ retryOf' = IF Named(e.n) \in failedFor THEN Named(e.n) ELSE "-"
        /\ failedFor' = failedFor \ {Named(e.n)}
  /\ UNCHANGED <<config, last, subscribed, closed, emitted, current_raw,
                 rawcfg, lastOk, envVars>>

\* stream.next() yields None: the loop ends and main returns Ok(()).
StreamEnded ==
  /\ pc = "loop"
  /\ stream = << >>
  /\ closed
  /\ pc' = "done"
  /\ UNCHANGED <<config, last, subscribed, stream, closed, emitted, taken, cur,
                 ctx, curP, mode, calls, inflight, log, probe, applyOut, result,
                 current_raw, rawcfg, failedFor, retryOf, lastOk, envVars>>

Next ==
  \/ LoadConfig
  \/ EnsureBins
  \/ Connect
  \/ StartupReadFails
  \/ StartupRead
  \/ ProbeReturn
  \/ ApplyReturn
  \/ Subscribe
  \/ Deliver
  \/ CloseStream
  \/ NextEvent
  \/ StreamEnded

Spec == Init /\ [][Next]_vars

\* ------------------------------------------------- vocabulary of the claims
\* The bus token of each profile.
Token(p) ==
  CASE p = "Performance" -> "performance"
    [] p = "Balanced" -> "balanced"
    [] p = "PowerSaver" -> "power-saver"

\* n carries an ActiveProfile string that names profile p.
CarriesProfile(n, p) == n.decode /\ n.has /\ n.isStr /\ n.s = Token(p)

\* n is a notification of the power-profile interface reporting p.
Reports(n, p) == CarriesProfile(n, p) /\ n.iface = "net.hadess.PowerProfiles"

\* The step takes the next notification from the stream.
Takes == taken' = taken + 1

\* c and m are the same letter up to case (m in lower case).
SameLetter(c, m) == c = m \/ \E k \in 1..26 : Upper[k] = c /\ Lower[k] = m

\* t contains "no scx scheduler running" in some letter case.
HasMarkerAnyCase(t) ==
  \E i \in 0..(Len(t) - Len(Marker)) :
    \A j \in 1..Len(Marker) : SameLetter(t[i + j], Marker[j])

\* t is raw with its leading and trailing whitespace removed.
IsTrimOf(t, raw) ==
  /\ t = << >> \/ (~IsSpace(t[1]) /\ ~IsSpace(t[Len(t)]))
  /\ \E a \in 0..Len(raw) :
       /\ a + Len(t) <= Len(raw)
       /\ \A j \in 1..Len(t) : raw[a + j] = t[j]
       /\ \A j \in 1..a : IsSpace(raw[j])
       /\ \A j \in (a + Len(t) + 1)..Len(raw) : IsSpace(raw[j])

\* The start/switch invocations among a handler's calls.
ApplyCalls(cs) == SelectSeq(cs, LAMBDA a : a[1] \in {"start", "switch"})
GetCalls(cs) == SelectSeq(cs, LAMBDA a : a = <<"get">>)

\* The mode the configuration file gives for profile p.
FileMode(p) == rawcfg[Token(p)]

\* ------------------------------------------------------------------ claims

\* C1: deduplication.  For every profile p, when the loop takes a
\* notification whose ActiveProfile string names p while last = Some(p), the
\* handler spawns no scxctl at all (no get, no start, no switch), returns to
\* the top of the loop, and last is still Some(p).
C1_Dedup ==
  [][ \A p \in Profile :
        (Takes /\ last = Some(p) /\ CarriesProfile(cur'.n, p))
          => /\ calls' = << >>
             /\ inflight' = << >>
             /\ last' = Some(p)
             /\ pc' = "loop" ]_vars

\* A duplicate has just been handled: the notification taken names the
\* profile in last, and nothing was invoked for it.
C1_Witness ==
  /\ ctx = "event"
  /\ pc = "loop"
  /\ \E p \in Profile : Reports(cur.n, p) /\ last = Some(p)
  /\ calls = << >>

\* C2: for every p and every last # Some(p) (Some(q) with q # p, or None),
\* taking a notification that reports p enters apply_mode once, with the
\* mode the table maps to p: one `scxctl get` is spawned, and through the
\* rest of the handler there is one get, at most one start/switch, issued
\* with that mode; the next notification is taken only after apply_mode has
\* returned; and if it returned Ok, last = Some(p).
C2_ApplyOnce ==
  /\ [][ \A p \in Profile :
           (Takes /\ last # Some(p) /\ Reports(cur'.n, p))
             => /\ pc' = "probe"
                /\ curP' = p
                /\ mode' = FileMode(p)
                /\ calls' = << <<"get">> >> ]_vars
  /\ [][ Takes => pc = "loop" /\ inflight = << >> ]_vars
  /\ [](\A p \in Profile :
          (ctx = "event" /\ Reports(cur.n, p) /\ calls # << >>)
            => /\ Len(GetCalls(calls)) = 1
               /\ Len(ApplyCalls(calls)) <= 1
               /\ \A i \in 1..Len(ApplyCalls(calls)) :
                    \E sub \in {"start", "switch"} :
                      ApplyCalls(calls)[i] =
                        <<sub, "--sched", FileMode(p).sched,
                          "--args=" \o FileMode(p).args>>
               /\ (pc = "loop" /\ result.ok) => last = Some(p))

\* An event reporting "performance" arrived while last was another profile
\* (the startup profile), apply_mode ran once and succeeded.
C2_Witness ==
  /\ ctx = "event"
  /\ pc = "loop"
  /\ Reports(cur.n, "Performance")
  /\ current_raw = "balanced"
  /\ taken = 1
  /\ result.ok
  /\ Len(calls) = 2
  /\ last = Some("Performance")

\* C3: in the event loop, when start/switch exits with a nonzero status (or
\* without an exit code), apply_mode returns an error carrying the
\* subcommand issued, that exit code (-1 when there is none) and the trimmed
\* stderr, and last is the same after the event as before.
C3_ToolFailure ==
  [][ (pc = "invoke" /\ ctx = "event" /\ pc' # "invoke"
       /\ applyOut'.exec
       /\ ~(applyOut'.status.hasCode /\ applyOut'.status.code = 0))
        => /\ ~result'.ok
           /\ result'.kind = "tool"
           /\ result'.subcmd = calls[2][1]
           /\ result'.subcmd \in {"start", "switch"}
           /\ result'.code = (IF applyOut'.status.hasCode
                                THEN applyOut'.status.code ELSE -1)
           /\ IsTrimOf(result'.stderr, applyOut'.stderr)
           /\ last' = last ]_vars

\* A switch issued for an event exited with code 2 and stderr " err\n".
C3_Witness ==
  /\ ctx = "event"
  /\ applyOut.exec
  /\ applyOut.status = [hasCode |-> TRUE, code |-> 2]
  /\ applyOut.stderr = <<" ","e","r","r","\n">>
  /\ result.code = 2
  /\ result.subcmd = "switch"
  /\ result.stderr = <<"e","r","r">>
  /\ last # Some(curP)

\* C4: once the loop has been entered, main never ends in error; it ends
\* only when the stream has ended and is drained; after a handler that met
\* an anomaly (a warning or error was its last log entry, or apply_mode
\* returned an error) main is back at stream.next(), and whenever it is
\* there and a notification is pending, that notification can be taken.
C4_LoopContains ==
  subscribed =>
    /\ pc \in {"loop", "probe", "invoke", "done"}
    /\ (pc = "done" => closed /\ stream = << >>)
    /\ (ctx = "event" /\ ~result.ok /\ result.kind # "none")
         => pc \in {"loop", "done"}
    /\ (ctx = "event" /\ log # << >> /\ log[Len(log)].level \in {"warn", "error"})
         => pc \in {"loop", "done"}
    /\ (pc = "loop" /\ stream # << >>) => ENABLED NextEvent

\* An event's start/switch failed and the loop is ready to take the next
\* notification, which is pending.
C4_Witness ==
  /\ ctx = "event"
  /\ ~result.ok
  /\ result.kind = "tool"
  /\ pc = "loop"
  /\ stream # << >>

C6_StartupFatal ==
  /\ (ctx = "startup" /\ ~result.ok /\ result.kind # "none")
       => /\ pc = "failed"
          /\ ~subscribed
          /\ taken = 0
          /\ last = None
  /\ (ctx = "event" /\ ~result.ok /\ result.kind # "none")
       => /\ pc \in {"loop", "done"}
          /\ subscribed
          /\ pc = "done" => closed /\ stream = << >>

\* The startup `start` exited nonzero and main has ended in error.
C6_Witness ==
  /\ ctx = "startup"
  /\ result.kind = "tool"
  /\ result.subcmd = "start"
  /\ pc = "failed"

\* C7: when the startup string is no profile token, startup spawns no
\* scxctl and the loop is entered with last = None; from then on, a
\* notification that is skipped leaves last = None, and the first one that
\* reports a profile p enters apply_mode for p.
C7_StartupParseFailure ==
  /\ []((pc \notin {"start", "ensure_bin", "connect", "read"}
         /\ current_raw \notin {"performance", "balanced", "power-saver"}
         /\ taken = 0)
          => calls = << >> /\ inflight = << >> /\ last = None
             /\ pc \in {"subscribe", "loop", "done", "failed"})
  /\ [][ (Takes /\ last = None
          /\ current_raw \notin {"performance", "balanced", "power-saver"})
           => IF \E p \in Profile : Reports(cur'.n, p)
                THEN /\ pc' = "probe"
                     /\ Reports(cur'.n, curP')
                     /\ mode' = FileMode(curP')
                     /\ calls' = << <<"get">> >>
                ELSE last' = None /\ pc' = "loop" /\ calls' = << >> ]_vars

\* Startup read "quiet"; the first notification was skipped; the second
\* reports a profile and its `scxctl get` is running.
C7_Witness ==
  /\ current_raw = "quiet"
  /\ taken = 2
  /\ pc = "probe"
  /\ last = None
  /\ \E p \in Profile : Reports(cur.n, p) /\ curP = p

\* C8: when the startup string names a profile, mapped by the file to
\* {sched X, args Y}, and the probe's stdout says no scheduler is running,
\* the scxctl invocations made before the first notification is taken are
\* exactly `get` and then one `start --sched X --args=Y`, of four tokens,
\* Y inside the one token `--args=Y`.
C8_StartupStart ==
  \A p \in Profile :
    (ctx = "startup" /\ current_raw = Token(p)
     /\ probe.exec /\ HasMarkerAnyCase(probe.stdout))
      => /\ taken = 0
         /\ calls = << <<"get">>,
                       <<"start", "--sched", FileMode(p).sched,
                         "--args=" \o FileMode(p).args>> >>
         /\ Len(calls[2]) = 4

\* Startup read "power-saver", the probe said not running, the start
\* succeeded and main is in the loop with no notification taken yet.
C8_Witness ==
  /\ ctx = "startup"
  /\ current_raw = "power-saver"
  /\ pc = "loop"
  /\ taken = 0
  /\ result.ok
  /\ calls[2] = <<"start", "--sched", "scx_lavd", "--args=--powersave -s 5000">>

\* C9: at most one scxctl child is in flight in every state; a notification
\* is taken only when no child is in flight and main is at stream.next();
\* and the k-th notification taken is the k-th the bus delivered.
C9_Sequential ==
  /\ [](Len(inflight) <= 1)
  /\ []((pc \in {"probe", "invoke"}) <=> (Len(inflight) = 1))
  /\ [][ Takes => /\ inflight = << >>
                  /\ pc = "loop"
                  /\ cur'.id = taken + 1
                  /\ \A i \in 1..Len(stream') : stream'[i].id > cur'.id ]_vars

\* The second notification delivered is the second one handled, and its
\* start/switch is the one child in flight.
C9_Witness ==
  /\ taken = 2
  /\ cur.id = 2
  /\ pc = "invoke"
  /\ Len(inflight) = 1
  /\ inflight[1][1] \in {"start", "switch"}

\* C10: a skipped notification (transport decode failure, another
\* interface, no ActiveProfile entry, a non-string value, or a string that
\* is none of the three tokens) leaves last and the configuration as they
\* were and spawns no scxctl; for another interface or an absent property
\* nothing is logged, for the other three exactly one warning is.
C10_SkipNoOp ==
  [][ Takes =>
        LET n == cur'.n
            silent == n.decode /\ (n.iface # "net.hadess.PowerProfiles" \/ ~n.has)
            warned == \/ ~n.decode
                      \/ /\ n.decode /\ n.iface = "net.hadess.PowerProfiles" /\ n.has
                         /\ (~n.isStr
                             \/ n.s \notin {"performance", "balanced", "power-saver"})
        IN /\ (silent \/ warned)
               => /\ last' = last
                  /\ config' = config
                  /\ calls' = << >>
                  /\ inflight' = << >>
                  /\ pc' = "loop"
           /\ silent => log' = << >>
           /\ warned => Len(log') = 1 /\ log'[1].level = "warn" ]_vars

\* A notification of another interface carrying "performance" was taken
\* while last was another profile: nothing invoked, nothing logged.
C10_Witness ==
  /\ ctx = "event"
  /\ cur.n.iface # "net.hadess.PowerProfiles"
  /\ cur.n.s = "performance"
  /\ cur.n.isStr
  /\ last = Some("Balanced")
  /\ calls = << >>
  /\ log = << >>
  /\ pc = "loop"

\* C11: retry after failure.  An event-driven application of p that fails
\* leaves last different from Some(p); and when, after such a failure, the
\* loop takes the next notification reporting p, that notification is not
\* deduplicated: the handler calls apply_mode for p (it spawns `scxctl get`
\* with the mode of p).
C11_RetryAfterFailure ==
  /\ [](\A p \in Profile :
          (ctx = "event" /\ curP = p /\ ~result.ok /\ result.kind # "none")
            => last # Some(p))
  /\ [](\A p \in Profile : p \in failedFor => last # Some(p))
  /\ [](\A p \in Profile :
          (ctx = "event" /\ retryOf = p)
            => /\ Reports(cur.n, p)
               /\ curP = p
               /\ mode = FileMode(p)
               /\ calls # << >>
               /\ calls[1] = <<"get">>)

\* The application of Performance failed while last was Some(Balanced); the
\* next notification reports Performance again and its probe is in flight.
C11_Witness ==
  /\ retryOf = "Performance"
  /\ taken = 2
  /\ last = Some("Balanced")
  /\ pc = "probe"
  /\ curP = "Performance"
  /\ calls = << <<"get">> >>

\* C13: Mode Table completeness.  load_config succeeds exactly when the key
\* set of the deserialized file is {performance, balanced, power-saver}; a
\* failed load ends the process before any bus or tool interaction; a loaded
\* table has exactly one entry per profile, the one the file gives, and never
\* changes; and no lookup made at startup or in the loop finds the mode
\* absent.
C13_TableComplete ==
  /\ [](pc # "start" =>
          (config.ok <=> DOMAIN rawcfg = {"performance", "balanced", "power-saver"}))
  /\ []((pc # "start" /\ ~config.ok) =>
          /\ pc = "failed"
          /\ calls = << >>
          /\ inflight = << >>
          /\ current_raw = ""
          /\ ~subscribed
          /\ emitted = 0)
  /\ [](pc \notin {"start", "failed"} => config.ok)
  /\ [](config.ok =>
          /\ DOMAIN config.modes = Profile
          /\ \A p \in Profile : config.modes[p] = FileMode(p))
  /\ [][pc # "start" => config' = config]_vars
  /\ [](\A i \in 1..Len(log) : log[i].msg # "no mode configured for profile")
  /\ [](\A p \in Profile :
          (pc \in {"probe", "invoke"} /\ curP = p) => mode = FileMode(p))

\* The file had exactly the three keys, and the loop has looked up the mode
\* of PowerSaver for a notification and is invoking scxctl with it.
C13_Witness ==
  /\ DOMAIN rawcfg = {"performance", "balanced", "power-saver"}
  /\ config.ok
  /\ ctx = "event"
  /\ pc = "invoke"
  /\ curP = "PowerSaver"
  /\ mode = ModeDefs["power-saver"]
  /\ Len(calls) = 2

\* C14: probe failure propagation.  When `scxctl get` could not be executed,
\* apply_mode returns the probe error and no start or switch is issued; when
\* `scxctl get` ran and exited nonzero, apply_mode goes on and issues one
\* start/switch; no apply_mode call issues more than one.
C14_ProbeFailure ==
  /\ [][ (pc = "probe" /\ pc' # "probe" /\ ~probe'.exec)
           => /\ ~result'.ok
              /\ result'.kind = "probe"
              /\ calls' = calls
              /\ ApplyCalls(calls') = << >>
              /\ inflight' = << >> ]_vars
  /\ [][ (pc = "probe" /\ pc' # "probe" /\ probe'.exec
          /\ ~(probe'.status.hasCode /\ probe'.status.code = 0))
           => /\ pc' = "invoke"
              /\ result' = result
              /\ result'.kind = "none"
              /\ Len(ApplyCalls(calls')) = 1
              /\ inflight' = ApplyCalls(calls') ]_vars
  /\ [](result.kind = "probe" => ApplyCalls(calls) = << >>)
  /\ [](Len(ApplyCalls(calls)) <= 1)
  /\ [](probe.exec => Len(ApplyCalls(calls)) = 1)

\* In the loop `scxctl get` could not be executed: apply_mode returned the
\* probe error, only the get was attempted, and the loop goes on.
C14_Witness ==
  /\ ctx = "event"
  /\ ~probe.exec
  /\ result.kind = "probe"
  /\ ~result.ok
  /\ calls = << <<"get">> >>
  /\ pc = "loop"

\* C16: after a failed event-driven application of p, whether the next
\* notification is applied depends on last alone, which the failure left
\* unchanged and different from Some(p): a notification reporting the
\* profile held in last is deduplicated (no scxctl is spawned), and one
\* reporting any other profile, p itself included, calls apply_mode.
C16_AfterFailure ==
  [][ \A p, q \in Profile :
        (Takes /\ ctx = "event" /\ curP = p /\ ~result.ok
         /\ result.kind # "none" /\ Reports(cur'.n, q))
          => /\ last # Some(p)
             /\ last' = last
             /\ IF last = Some(q)
                  THEN q # p /\ calls' = << >> /\ pc' = "loop"
                  ELSE /\ pc' = "probe"
                       /\ curP' = q
                       /\ calls' = << <<"get">> >> ]_vars

\* The switch for Performance failed while last was Some(Balanced); the
\* repeat notification reporting Performance was applied again and that
\* application succeeded.
C16_Witness ==
  /\ retryOf = "Performance"
  /\ taken = 2
  /\ curP = "Performance"
  /\ Len(calls) = 2
  /\ result.ok
  /\ last = Some("Performance")
  /\ pc = "loop"

\* C16 as stated: a repeat notification reporting the profile whose
\* application just failed is deduplicated and spawns no scxctl.
C16_RepeatSuppressed ==
  [][ \A p \in Profile :
        (Takes /\ ctx = "event" /\ curP = p /\ ~result.ok
         /\ result.kind # "none" /\ Reports(cur'.n, p))
          => calls' = << >> /\ pc' = "loop" ]_vars

\* C18: when `scxctl get` ran and exited with a nonzero status, the
\* scheduler is taken as not running and the command issued next is `start`.
C18_GetErrorMeansStart ==
  (Len(calls) >= 2 /\ calls[1] = <<"get">> /\ probe.exec
   /\ ~(probe.status.hasCode /\ probe.status.code = 0))
    => calls[2][1] = "start"

\* C20: last-applied tracking.  last = Some(p) exactly when the most recent
\* start/switch that exited 0 was the one issued for p, with the mode the
\* file gives p; last = None exactly when no start/switch has exited 0;
\* last never goes back to None, and it changes only in the step in which a
\* start/switch exits 0, to the profile that command was issued for.
C20_LastTracking ==
  /\ [](last = None <=> lastOk.p = "-")
  /\ [](\A p \in Profile : last = Some(p) <=> lastOk.p = p)
  /\ [](\A p \in Profile :
          last = Some(p) =>
            \E sub \in {"start", "switch"} :
              lastOk.argv = <<sub, "--sched", FileMode(p).sched,
                              "--args=" \o FileMode(p).args>>)
  /\ [][last # None => last' # None]_vars
  /\ [][last' # last =>
          /\ pc = "invoke"
          /\ applyOut'.exec
          /\ applyOut'.status.hasCode
          /\ applyOut'.status.code = 0
          /\ calls'[2][1] \in {"start", "switch"}
          /\ last' = Some(curP)
          /\ result'.ok]_vars
  /\ [][(Takes \/ (pc \in {"probe", "invoke"} /\ ~result'.ok /\ pc' # "invoke"))
          => last' = last]_vars

\* Balanced was applied at startup; a notification for PowerSaver was then
\* applied and its command failed: last is still Some(Balanced), the profile
\* of the latest command that exited 0.  The file gives performance and
\* balanced the same mode.
C20_Witness ==
  /\ config.ok
  /\ rawcfg["balanced"] = rawcfg["performance"]
  /\ last = Some("Balanced")
  /\ lastOk.p = "Balanced"
  /\ ctx = "event"
  /\ curP = "PowerSaver"
  /\ result.kind = "tool"
  /\ pc = "loop"

\* ---------------------------------------------------------------- fairness
\* The runs checked for progress: scxctl cannot be executed, or it exits 0 or
\* 1 with its usual output; the bus delivers any signal.
FairGetResults ==
  {r \in GetResults : r.exec => success(r.status) /\ r.stdout \in {Marker, << >>}}

FairApplyResults ==
  {r \in ApplyResults :
     r.exec => /\ r.status.hasCode /\ r.status.code \in {0, 1}
               /\ r.stdout = << >>
               /\ (r.stderr = << >> <=> success(r.status))}

FairProbeReturn == ProbeReturnOf(FairGetResults) /\ UNCHANGED envVars

FairApplyReturn == ApplyReturnOf(FairApplyResults) /\ UNCHANGED envVars

FairNext ==
  \/ LoadConfig
  \/ EnsureBins
  \/ Connect
  \/ StartupReadFails
  \/ StartupRead
  \/ FairProbeReturn
  \/ FairApplyReturn
  \/ Subscribe
  \/ Deliver
  \/ CloseStream
  \/ NextEvent
  \/ StreamEnded

\* Every scxctl child eventually exits (the waits in scx_running and in
\* apply_mode return), and the loop's stream.next() is eventually polled
\* when a notification is queued.
FairSpec ==
  /\ Init
  /\ [][FairNext]_vars
  /\ WF_vars(FairProbeReturn)
  /\ WF_vars(FairApplyReturn)
  /\ WF_vars(NextEvent)

\* C19: progress and stall.  Under FairSpec every notification the
\* subscription delivered is eventually taken by the loop (the k-th
\* delivered is the k-th taken).  While an scxctl child is in flight the
\* loop cannot take a notification, and last changes only in the step in
\* which the child returns.
C19_ProgressAndStall ==
  /\ \A k \in 1..MaxEvents : (emitted >= k) ~> (taken >= k /\ cur.id >= k)
  /\ [](taken = cur.id)
  /\ [](inflight # << >> => ~ENABLED NextEvent)
  /\ [][inflight # << >> => taken' = taken /\ cur' = cur]_vars
  /\ [][(inflight # << >> /\ last' # last)
          => pc = "invoke" /\ inflight' = << >>]_vars

\* The first notification's start/switch is in flight and the second
\* notification, already delivered, waits in the stream.
C19_Witness ==
  /\ emitted = 2
  /\ taken = 1
  /\ ctx = "event"
  /\ pc = "invoke"
  /\ inflight # << >>
  /\ Len(stream) = 1

\* ------------------------------------------- main and its surroundings
\* The power-profile service holds ActiveProfile and announces each change
\* with a PropertiesChanged signal to the subscriptions that exist at that
\* moment; scx_loader runs a scheduler or none, other programs may start or
\* stop it, and `scxctl get` reports what it found when it asked.
ServiceProfiles == {"performance", "balanced", "power-saver"}

Announce(v) ==
  [decode |-> TRUE, iface |-> IFACE, has |-> TRUE, isStr |-> TRUE, s |-> v]

\* Signals that are not profile changes.
NoiseNotifs == {n \in NotifShapes : ~n.decode \/ n.iface # IFACE \/ ~n.has}

\* What `scxctl get` returns after it found the run state sm ("none": it
\* could not be executed, or exited 1 without reaching scx_loader).
GetResultsFor(sm) ==
  IF sm = "none"
    THEN {r \in GetResults : r.exec => ~success(r.status) /\ r.stdout = << >>}
    ELSE {r \in GetResults :
            /\ r.exec
            /\ success(r.status)
            /\ r.stdout # << >>
            /\ contains(to_lowercase(r.stdout), Marker) <=> sm = "no"}

InitEnv ==
  /\ InitMain
  /\ active \in ServiceProfiles
  /\ running \in BOOLEAN
  /\ sampled = "none"
  /\ lostChange = FALSE
  /\ anyFail = FALSE

EnvLoadConfig ==
  /\ LoadConfigOf({raw \in RawConfigs : \A k \in DOMAIN raw : raw[k] = ModeDefs[k]})

\* get_property("ActiveProfile") returns what the service holds.
EnvStartupRead == StartupReadOf({active}) /\ UNCHANGED envVars

\* The service changes ActiveProfile.  A subscription that exists receives
\* the signal; before receive_properties_changed() there is none.
ChangeProfile ==
  /\ pc \notin {"failed", "done"}
  /\ ~closed
  /\ \E v \in ServiceProfiles \ {active} :
       /\ active' = v
       /\ IF subscribed
            THEN /\ emitted < MaxEvents
                 /\ stream' = Append(stream, [id |-> emitted + 1, n |-> Announce(v)])
                 /\ emitted' = emitted + 1
                 /\ lostChange' = lostChange
            ELSE /\ UNCHANGED <<stream, emitted>>
                 /\ lostChange' = (lostChange \/ pc \in {"probe", "invoke", "subscribe"})
  /\ UNCHANGED <<pc, config, last, subscribed, closed, taken, cur, ctx, curP,
                 mode, calls, inflight, log, probe, applyOut, result,
                 current_raw, rawcfg, failedFor, retryOf, lastOk,
                 running, sampled, anyFail>>

\* The bus delivers a signal that changes nothing: noise, or a repeated
\* announcement of the profile in force.
EnvDeliver == DeliverOf(NoiseNotifs \cup {Announce(active)}) /\ UNCHANGED envVars

\* The running `scxctl get` asks scx_loader for the run state.
EnvGetSamples ==
  /\ pc = "probe"
  /\ sampled = "none"
  /\ sampled' = IF running THEN "yes" ELSE "no"
  /\ UNCHANGED <<pc, config, last, subscribed, stream, closed, emitted, taken,
                 cur, ctx, curP, mode, calls, inflight, log, probe, applyOut,
                 result, current_raw, rawcfg, failedFor, retryOf, lastOk,
                 active, running, lostChange, anyFail>>

\* Another program starts or stops the scheduler.
ExternalFlip ==
  /\ pc \in {"probe", "invoke", "loop"}
  /\ running' = ~running
  /\ UNCHANGED <<pc, config, last, subscribed, stream, closed, emitted, taken,
                 cur, ctx, curP, mode, calls, inflight, log, probe, applyOut,
                 result, current_raw, rawcfg, failedFor, retryOf, lastOk,
                 active, sampled, lostChange, anyFail>>

EnvProbeReturn ==
  /\ ProbeReturnOf(GetResultsFor(sampled))
  /\ sampled' = "none"
  /\ anyFail' = (anyFail \/ pc' \in {"loop", "failed"})
  /\ UNCHANGED <<active, running, lostChange>>

\* start/switch returns; one that exited 0 leaves a scheduler running.
EnvApplyReturn ==
  /\ ApplyReturnOf(FairApplyResults)
  /\ running' = (running \/ success(applyOut'.status))
  /\ anyFail' = (anyFail \/ ~success(applyOut'.status))
  /\ UNCHANGED <<active, sampled, lostChange>>

EnvNext ==
  \/ EnvLoadConfig
  \/ EnsureBins
  \/ Connect
  \/ StartupReadFails
  \/ EnvStartupRead
  \/ EnvGetSamples
  \/ EnvProbeReturn
  \/ EnvApplyReturn
  \/ Subscribe
  \/ ChangeProfile
  \/ EnvDeliver
  \/ ExternalFlip
  \/ CloseStream
  \/ NextEvent
  \/ StreamEnded

SpecEnv == InitEnv /\ [][EnvNext]_vars

\* ------------------------------------------------- the loop, any Config
\* The values of type Config whose table lacks some profile.  load_config
\* never returns one; the loop body is written for them all the same
\* (mode_for returns an Option, and the None arm at the end of the match
\* handles it).
PartialConfigs ==
  { [ok |-> TRUE, modes |-> [p \in ps |-> ModeDefs[as_config_key(p)]]] :
      ps \in (SUBSET Profile) \ {Profile} }

\* main at its first stream.next(), had it been given a table of
\* PartialConfigs: the startup sync applied a profile of the table or
\* applied nothing.
InitLoop ==
  /\ pc = "loop"
  /\ config \in PartialConfigs
  /\ rawcfg = [k \in {as_config_key(p) : p \in DOMAIN config.modes} |-> ModeDefs[k]]
  /\ last \in {None} \cup {Some(p) : p \in DOMAIN config.modes}
  /\ lastOk = IF last = None THEN NoLastOk
              ELSE [p |-> last.p, argv |-> ApplyArgv("start", config.modes[last.p])]
  /\ subscribed = TRUE
  /\ stream = << >>
  /\ closed = FALSE
  /\ emitted = 0
  /\ taken = 0
  /\ cur = [id |-> 0, n |-> NoNotif]
  /\ ctx = "startup"
  /\ curP = "-"
  /\ mode = NoMode
  /\ calls = << >>
  /\ inflight = << >>
  /\ log = << >>
  /\ probe = NoOutput
  /\ applyOut = NoOutput
  /\ result = NoResult
  /\ current_raw = ""
  /\ failedFor = {}
  /\ retryOf = "-"
  /\ active = "-"
  /\ running = FALSE
  /\ sampled = "none"
  /\ lostChange = FALSE
  /\ anyFail = FALSE

LoopNext ==
  \/ Deliver
  \/ CloseStream
  \/ NextEvent
  \/ FairProbeReturn
  \/ FairApplyReturn
  \/ StreamEnded

LoopSpec == InitLoop /\ [][LoopNext]_vars

C12_NoChangeMissed ==
  (pc = "loop" /\ stream = << >> /\ ~anyFail)
    => \E p \in Profile : last = Some(p) /\ active = Token(p)

\* The same, for the runs in which ActiveProfile did not change between the
\* startup read and the subscription.
C12_OutsideTheWindow ==
  (pc = "loop" /\ stream = << >> /\ ~anyFail /\ ~lostChange)
    => \E p \in Profile : last = Some(p) /\ active = Token(p)

\* C15: start only when no scheduler is running, switch only when one is,
\* judged by the run state at the moment apply_mode issues the command.
C15_MatchesRunState ==
  [][ (pc = "probe" /\ pc' = "invoke")
        => /\ calls'[2][1] = "start" => ~running
           /\ calls'[2][1] = "switch" => running ]_vars

\* The same, for the calls whose `scxctl get` exited 0 and in which the run
\* state at the moment of the command is still the one the get found.
C15_WhenProbeIsCurrent ==
  [][ (pc = "probe" /\ pc' = "invoke" /\ success(probe'.status)
       /\ sampled = (IF running THEN "yes" ELSE "no"))
        => /\ calls'[2][1] = "start" => ~running
           /\ calls'[2][1] = "switch" => running ]_vars

\* The same, for a get that exited 0 although the run state has changed
\* since it asked.
C15_AfterExternalChange ==
  [][ (pc = "probe" /\ pc' = "invoke" /\ success(probe'.status))
        => /\ calls'[2][1] = "start" => ~running
           /\ calls'[2][1] = "switch" => running ]_vars

====
